---- MODULE Spec2Model ----
(***************************************************************************)
(* Model of the relativity time-dilation app: the physics functions of     *)
(* physics.ts (src/unnamed/part_000) and the App component's input state   *)
(* and derived-value pipeline (src/src/App.tsx).                           *)
(*                                                                         *)
(* Every JavaScript number is an IEEE-754 binary64 value.  The model keeps *)
(* that arithmetic bit for bit: a finite number is sign, 53-bit            *)
(* significand and binary exponent, every operation is computed exactly on *)
(* unbounded naturals and then rounded to nearest, ties to even, as the    *)
(* hardware does.  Exponent overflow and subnormals are not modelled: the  *)
(* magnitudes of this program stay between 1e-20 and 1e40.                 *)
(*                                                                         *)
(* Where a definition uses an intermediate value more than once it binds   *)
(* the value to a bound variable,                                          *)
(*     CHOOSE res \in {E : x \in {V}} : TRUE                               *)
(* which is E with x standing for the value of V: the set has one element. *)
(***************************************************************************)
EXTENDS Integers, Sequences, FiniteSets, TLC

(***************************************************************************)
(* Unbounded naturals: little-endian sequences of limbs in base 2^15, no   *)
(* leading (most significant) zero limb; <<>> is zero.                     *)
(***************************************************************************)
LimbBits == 15

Base == 32768

SetMax(S) == CHOOSE x \in S : \A y \in S : y <= x

\* a without its leading zero limbs
Norm(a) ==
  IF Len(a) = 0 THEN <<>>
  ELSE IF a[Len(a)] # 0 THEN SubSeq(a, 1, Len(a))
  ELSE LET nz == {i \in 1..Len(a) : a[i] # 0}
       IN IF nz = {} THEN <<>> ELSE SubSeq(a, 1, SetMax(nz))

Limb(a, i) == IF i >= 1 /\ i <= Len(a) THEN a[i] ELSE 0

BigOfInt(n) == Norm(<<n % Base, (n \div Base) % Base, n \div (Base * Base)>>)

RECURSIVE BCmpFrom(_, _, _)
BCmpFrom(a, b, i) ==
  IF i = 0 THEN 0
  ELSE IF a[i] < b[i] THEN -1
  ELSE IF a[i] > b[i] THEN 1
  ELSE BCmpFrom(a, b, i - 1)

\* -1, 0 or 1 as a < b, a = b or a > b
BCmp(a, b) ==
  IF Len(a) < Len(b) THEN -1
  ELSE IF Len(a) > Len(b) THEN 1
  ELSE BCmpFrom(a, b, Len(a))

\* whether a carry enters limb i of the limb sums s (each in 0..2*Base-2)
RECURSIVE CarryIn(_, _)
CarryIn(s, i) ==
  i > 1 /\ (s[i - 1] >= Base \/ (s[i - 1] = Base - 1 /\ CarryIn(s, i - 1)))

\* the number whose limbs, before carrying, are s[i] in 0..2*Base-2
Carried(s) ==
  LET n == Len(s)
      cin(i) == IF CarryIn(s, i) THEN 1 ELSE 0
  IN Norm([i \in 1..(n + 1) |-> IF i <= n THEN (s[i] + cin(i)) % Base ELSE cin(i)])

\* whether limb i of the limb differences d lends to a lower limb
RECURSIVE BorrowIn(_, _)
BorrowIn(d, i) ==
  i > 1 /\ (d[i - 1] < 0 \/ (d[i - 1] = 0 /\ BorrowIn(d, i - 1)))

BAdd(a, b) ==
  LET n == IF Len(a) > Len(b) THEN Len(a) ELSE Len(b)
  IN Carried([i \in 1..n |-> Limb(a, i) + Limb(b, i)])

\* a - b for a >= b
BSub(a, b) ==
  LET d == [i \in 1..Len(a) |-> a[i] - Limb(b, i)]
      bin(i) == IF BorrowIn(d, i) THEN 1 ELSE 0
  IN Norm([i \in 1..Len(a) |-> (d[i] - bin(i) + Base) % Base])

BShlLimbs(a, n) == IF Len(a) = 0 \/ n = 0 THEN a ELSE [i \in 1..n |-> 0] \o a

\* a * k for 0 <= k < Base
BMulSmall(a, k) ==
  LET n == Len(a)
  IN Carried([i \in 1..(n + 1) |->
       (IF i <= n THEN ((a[i] * k) % Base) ELSE 0)
       + (IF i >= 2 THEN ((a[i - 1] * k) \div Base) ELSE 0)])

\* a * b: column sums of the low and high halves of the limb products
BMul(a, b) ==
  LET n == Len(a) + Len(b)
      RECURSIVE SumLo(_, _), SumHi(_, _)
      \* over the i in S: the low halves of a[i] * b[k + 1 - i], the high
      \* halves of a[i] * b[k - i]
      SumLo(S, k) == IF S = {} THEN 0
                     ELSE LET i == SetMax(S)
                          IN ((a[i] * b[k + 1 - i]) % Base) + SumLo(S \ {i}, k)
      SumHi(S, k) == IF S = {} THEN 0
                     ELSE LET i == SetMax(S)
                          IN ((a[i] * b[k - i]) \div Base) + SumHi(S \ {i}, k)
      Col(k) == SumLo({i \in 1..Len(a) : k + 1 - i >= 1 /\ k + 1 - i <= Len(b)}, k)
                + SumHi({i \in 1..Len(a) : k - i >= 1 /\ k - i <= Len(b)}, k)
  IN IF Len(a) = 0 \/ Len(b) = 0 THEN <<>>
     ELSE CHOOSE res \in {
            BAdd(Norm([k \in 1..n |-> fat[k] % Base]),
                 Norm([k \in 1..(n + 1) |-> IF k = 1 THEN 0 ELSE (fat[k - 1] \div Base)]))
          : fat \in {SubSeq([k \in 1..n |-> Col(k)], 1, n)}} : TRUE

SmallBitLen(n) == IF n = 0 THEN 0 ELSE CHOOSE k \in 1..31 : 2 ^ (k - 1) <= n /\ (k = 31 \/ n < 2 ^ k)

BitLen(a) ==
  IF Len(a) = 0 THEN 0 ELSE LimbBits * (Len(a) - 1) + SmallBitLen(a[Len(a)])

\* a * 2^n
BShl(a, n) ==
  LET s == n % LimbBits
      lo == 2 ^ (LimbBits - s)
  IN BShlLimbs(Norm([i \in 1..(Len(a) + 1) |->
                  ((Limb(a, i) % lo) * (2 ^ s)) + (Limb(a, i - 1) \div lo)]),
               n \div LimbBits)

\* <<a div 2^n, whether a mod 2^n # 0>>
BShr(a, n) ==
  LET w == n \div LimbBits
      s == n % LimbBits
      lost == (\E i \in 1..w : Limb(a, i) # 0) \/ (Limb(a, w + 1) % (2 ^ s)) # 0
      q == [i \in 1..(Len(a) - w) |->
              (Limb(a, i + w) \div (2 ^ s))
              + ((Limb(a, i + w + 1) % (2 ^ s)) * (2 ^ (LimbBits - s)))]
  IN <<IF w >= Len(a) THEN <<>> ELSE Norm(q), lost>>

BIsOdd(a) == Len(a) > 0 /\ a[1] % 2 = 1

(***************************************************************************)
(* Long division (Knuth's algorithm D with the quotient digit corrected by *)
(* comparison).  The divisor is scaled so that its top limb is at least    *)
(* Base/2; then the estimate from the top limbs exceeds the digit by at    *)
(* most 2.                                                                 *)
(***************************************************************************)
\* the largest digit q <= q0 with d * q <= cur: <<q, cur - d * q>>
RECURSIVE QFix(_, _, _)
QFix(cur, d, q0) ==
  CHOOSE res \in {
    IF BCmp(p, cur) = 1 THEN QFix(cur, d, q0 - 1) ELSE <<q0, BSub(cur, p)>>
  : p \in {BMulSmall(d, q0)}} : TRUE

\* one quotient digit <<q, cur - q*d>>: cur < d * Base, top limb of d >= Base/2
QDigit(cur, d) ==
  LET n == Len(d)
      est == (Limb(cur, n + 1) * Base + Limb(cur, n)) \div d[n]
  IN IF BCmp(cur, d) = -1 THEN <<0, cur>>
     ELSE QFix(cur, d, IF est > Base - 1 THEN Base - 1 ELSE est)

\* the digits of a from limb i down, given the remainder rem of the limbs above
RECURSIVE BDivFrom(_, _, _, _, _)
BDivFrom(a, d, i, rem, acc) ==
  IF i = 0 THEN <<Norm(acc), rem>>
  ELSE CHOOSE res \in {
         BDivFrom(a, d, i - 1, qd[2], <<qd[1]>> \o acc)
       : qd \in {QDigit(Norm(<<a[i]>> \o rem), d)}} : TRUE

\* <<a div b, a mod b>> for b # 0
BDivMod(a, b) ==
  LET sh == LimbBits - SmallBitLen(b[Len(b)])
  IN CHOOSE res \in {
       CHOOSE res \in {
         <<qr[1], BShr(qr[2], sh)[1]>>
       : qr \in {BDivFrom(sa, sb, Len(sa), <<>>, <<>>)}} : TRUE
     : sa \in {BShl(a, sh)}, sb \in {BShl(b, sh)}} : TRUE

(***************************************************************************)
(* Square root with remainder, <<s, n - s*s>> with s = floor(sqrt(n)), by  *)
(* Zimmermann's recursion: the root of the top half, one division by twice *)
(* that root, one correction.  n is given as 2^j limbs (j = 1, 2, 3) whose *)
(* top limb is at least Base/4.                                            *)
(***************************************************************************)
\* floor(sqrt(t)) for 0 < t < 2^30, by Newton's iteration on machine integers
RECURSIVE SmallSqrtFrom(_, _)
SmallSqrtFrom(t, x) ==
  LET y == (x + t \div x) \div 2
  IN IF y < x THEN SmallSqrtFrom(t, y) ELSE x

SmallSqrt(t) == SmallSqrtFrom(t, 2 ^ ((SmallBitLen(t) + 1) \div 2))

\* the root <<s, n - s*s>> from the candidate s, the candidate remainder u
\* and q*q, where n = s*s + u - q*q and the true root is s or s - 1
SqrtFix(s, u, qq) ==
  IF BCmp(u, qq) >= 0 THEN <<s, BSub(u, qq)>>
  ELSE <<BSub(s, <<1>>), BSub(BSub(BAdd(u, BShl(s, 1)), <<1>>), qq)>>

\* the step from the root sr = <<s1, r1>> of the top half to the root of
\* top * b^2 + a1 * b + a0, where b = Base^k
SqrtStep(sr, a1, a0, k) ==
  CHOOSE res \in {
    SqrtFix(BAdd(BShlLimbs(sr[1], k), qu[1]), BAdd(BShlLimbs(qu[2], k), a0),
            BMul(qu[1], qu[1]))
  : qu \in {BDivMod(BAdd(BShlLimbs(sr[2], k), a1), BShl(sr[1], 1))}} : TRUE

\* the limbs lo..hi of n as a number
Part(n, lo, hi) == Norm(SubSeq(n, lo, hi))

RECURSIVE SqrtRem(_)
SqrtRem(n) ==
  LET t == n[2] * Base + n[1]
      k == Len(n) \div 4
  IN IF Len(n) = 2
       THEN CHOOSE res \in {
              <<BigOfInt(s), BigOfInt(t - s * s)>>
            : s \in {SmallSqrt(t)}} : TRUE
       ELSE SqrtStep(SqrtRem(SubSeq(n, 2 * k + 1, 4 * k)),
                     Part(n, k + 1, 2 * k), Part(n, 1, k), k)

(***************************************************************************)
(* JavaScript numbers (IEEE-754 binary64).  A finite value is              *)
(* (-1)^s * m * 2^e with m = 0 or 2^52 <= m < 2^53; k tells finite values, *)
(* infinities and NaN apart.                                               *)
(***************************************************************************)
Precision == 53

Fin(s, m, e) == [k |-> "fin", s |-> s, m |-> m, e |-> e]

Zero(s) == Fin(s, <<>>, 0)

Inf(s) == [k |-> "inf", s |-> s, m |-> <<>>, e |-> 0]

NaN == [k |-> "nan", s |-> 0, m |-> <<>>, e |-> 0]

IsNaN(x) == x.k = "nan"

IsInf(x) == x.k = "inf"

IsZero(x) == x.k = "fin" /\ Len(x.m) = 0

\* Number.isFinite
IsFinite(x) == x.k = "fin"

\* (-1)^s * q * 2^e, where q has Precision bits and may have to go up by one
RoundUp(s, q, up, e) ==
  CHOOSE res \in {
    IF BitLen(m1) > Precision THEN Fin(s, BShr(m1, 1)[1], e + 1) ELSE Fin(s, m1, e)
  : m1 \in {IF up THEN BAdd(q, <<1>>) ELSE q}} : TRUE

\* (-1)^s * (h / 2 + f) * 2^e rounded to nearest, ties to even: h has
\* Precision + 1 bits, the last of them the half, and inexact tells whether
\* the fraction f below it (0 <= f < 1/2) is non-zero
RoundHalf(s, h, e, inexact) ==
  CHOOSE res \in {
    RoundUp(s, q, BIsOdd(h) /\ (inexact \/ BIsOdd(q)), e)
  : q \in {BShr(h, 1)[1]}} : TRUE

\* (-1)^s * (M + f) * 2^e rounded to nearest, ties to even; sticky tells
\* whether the discarded fraction f (0 <= f < 1) is non-zero
RoundPack(s, M, e, sticky) ==
  LET d == BitLen(M) - Precision
  IN IF Len(M) = 0 THEN Zero(s)
     ELSE IF d <= 0 THEN Fin(s, BShl(M, -d), e + d)
     ELSE CHOOSE res \in {
            RoundHalf(s, sh[1], e + d, sticky \/ sh[2])
          : sh \in {BShr(M, d - 1)}} : TRUE

FromInt(n) == RoundPack(IF n < 0 THEN 1 ELSE 0, BigOfInt(IF n < 0 THEN -n ELSE n), 0, FALSE)

RECURSIVE BPow10(_)
BPow10(n) ==
  IF n = 0 THEN <<1>>
  ELSE CHOOSE res \in {BMulSmall(t, 10) : t \in {BPow10(n - 1)}} : TRUE

\* (-1)^s * (d / den) * 2^e rounded, from the quotient of d * 2^sh by den,
\* which sh makes at least Precision + 2 bits long
RoundQuotient(s, d, den, sh, e) ==
  CHOOSE res \in {
    RoundPack(s, qr[1], e - sh, Len(qr[2]) # 0)
  : qr \in {BDivMod(BShl(d, sh), den)}} : TRUE

\* the number a decimal literal d * 10^p denotes (d >= 0): the nearest binary64
FromDec(d, p) ==
  IF p >= 0 THEN RoundPack(0, BMul(BigOfInt(d), BPow10(p)), 0, FALSE)
  ELSE RoundQuotient(0, BigOfInt(d), BPow10(-p), Precision + 3 + BitLen(BPow10(-p)), 0)

\* -x
FNeg(x) == IF IsNaN(x) THEN x ELSE [x EXCEPT !.s = 1 - x.s]

\* Math.abs
MathAbs(x) == IF IsNaN(x) THEN x ELSE [x EXCEPT !.s = 0]

\* the sum of two finite non-zero numbers whose significands, brought to the
\* common exponent e, are Ma and Mb
AddAligned(sa, Ma, sb, Mb, e) ==
  CHOOSE res \in {
    IF sa = sb THEN RoundPack(sa, BAdd(Ma, Mb), e, FALSE)
    ELSE IF c = 0 THEN Zero(0)
    ELSE RoundPack(IF c = 1 THEN sa ELSE sb,
                   IF c = 1 THEN BSub(Ma, Mb) ELSE BSub(Mb, Ma), e, FALSE)
  : c \in {BCmp(Ma, Mb)}} : TRUE

\* a + b
FAdd(a, b) ==
  IF IsNaN(a) \/ IsNaN(b) THEN NaN
  ELSE IF IsInf(a) THEN (IF IsInf(b) /\ a.s # b.s THEN NaN ELSE a)
  ELSE IF IsInf(b) THEN b
  ELSE IF IsZero(a) /\ IsZero(b) THEN Zero(IF a.s = 1 /\ b.s = 1 THEN 1 ELSE 0)
  ELSE IF IsZero(a) THEN b
  ELSE IF IsZero(b) THEN a
  ELSE LET e == IF a.e < b.e THEN a.e ELSE b.e
       IN AddAligned(a.s, BShl(a.m, a.e - e), b.s, BShl(b.m, b.e - e), e)

\* a - b
FSub(a, b) == FAdd(a, FNeg(b))

SignXor(a, b) == IF a.s = b.s THEN 0 ELSE 1

\* a * b
FMul(a, b) ==
  IF IsNaN(a) \/ IsNaN(b) THEN NaN
  ELSE IF IsInf(a) \/ IsInf(b)
    THEN (IF IsZero(a) \/ IsZero(b) THEN NaN ELSE Inf(SignXor(a, b)))
  ELSE IF IsZero(a) \/ IsZero(b) THEN Zero(SignXor(a, b))
  ELSE RoundPack(SignXor(a, b), BMul(a.m, b.m), a.e + b.e, FALSE)

\* a / b
FDiv(a, b) ==
  IF IsNaN(a) \/ IsNaN(b) THEN NaN
  ELSE IF IsInf(a) THEN (IF IsInf(b) THEN NaN ELSE Inf(SignXor(a, b)))
  ELSE IF IsInf(b) THEN Zero(SignXor(a, b))
  ELSE IF IsZero(b) THEN (IF IsZero(a) THEN NaN ELSE Inf(SignXor(a, b)))
  ELSE IF IsZero(a) THEN Zero(SignXor(a, b))
  ELSE RoundQuotient(SignXor(a, b), a.m, b.m, Precision + 3, a.e - b.e)

\* Math.sqrt
MathSqrt(x) ==
  IF IsNaN(x) THEN NaN
  ELSE IF IsZero(x) THEN x
  ELSE IF x.s = 1 THEN NaN
  ELSE IF IsInf(x) THEN x
  ELSE LET \* x = N * 2^(x.e - sh) with x.e - sh even and N of 119 or 120 bits
           sh == IF (x.e % 2) = 0 THEN 66 ELSE 67
       IN CHOOSE res \in {
            RoundPack(0, sr[1], (x.e - sh) \div 2, Len(sr[2]) # 0)
          : sr \in {SqrtRem(BShl(x.m, sh))}} : TRUE

\* the order of two numbers that are not NaN: -1, 0 or 1
MagCmp(a, b) ==
  IF IsInf(a) THEN (IF IsInf(b) THEN 0 ELSE 1)
  ELSE IF IsInf(b) THEN -1
  ELSE IF IsZero(a) THEN (IF IsZero(b) THEN 0 ELSE -1)
  ELSE IF IsZero(b) THEN 1
  ELSE IF a.e < b.e THEN -1
  ELSE IF a.e > b.e THEN 1
  ELSE BCmp(a.m, b.m)

FCmp(a, b) ==
  IF IsZero(a) /\ IsZero(b) THEN 0
  ELSE IF IsZero(a) THEN (IF b.s = 0 THEN -1 ELSE 1)
  ELSE IF IsZero(b) THEN (IF a.s = 0 THEN 1 ELSE -1)
  ELSE IF a.s # b.s THEN (IF a.s = 0 THEN 1 ELSE -1)
  ELSE IF a.s = 0 THEN MagCmp(a, b)
  ELSE MagCmp(b, a)

\* a === b, a < b, a <= b, a > b, a >= b: false when either is NaN
FEq(a, b) == ~IsNaN(a) /\ ~IsNaN(b) /\ FCmp(a, b) = 0

FLt(a, b) == ~IsNaN(a) /\ ~IsNaN(b) /\ FCmp(a, b) = -1

FLe(a, b) == ~IsNaN(a) /\ ~IsNaN(b) /\ FCmp(a, b) <= 0

FGt(a, b) == FLt(b, a)

FGe(a, b) == FLe(b, a)

\* the larger (Larger = 1) or the smaller (Larger = -1) of two numbers that
\* are not NaN, where -0 is below +0
Pick(a, b, c, Larger) ==
  IF c = Larger THEN a
  ELSE IF c = -Larger THEN b
  ELSE IF a.s = (IF Larger = 1 THEN 0 ELSE 1) THEN a ELSE b

\* Math.max, Math.min
MathMax(a, b) == IF IsNaN(a) \/ IsNaN(b) THEN NaN ELSE Pick(a, b, FCmp(a, b), 1)

MathMin(a, b) == IF IsNaN(a) \/ IsNaN(b) THEN NaN ELSE Pick(a, b, FCmp(a, b), -1)

(***************************************************************************)
(* physics.ts                                                              *)
(***************************************************************************)
G == FromDec(66743, -15)

C == FromInt(299792458)

M_SUN == FromDec(198847, 25)

R_SUN == FromDec(6957, 5)

\* the number literals of the two source files
Num0 == FromInt(0)

Num1 == FromInt(1)

Num2 == FromInt(2)

schwarzschildRadius(massKg) == FDiv(FMul(FMul(Num2, G), massKg), FMul(C, C))

Modes == {"surface", "staticAltitude", "circularOrbit"}

BODIES ==
  << [id |-> "earth", massKg |-> FromDec(5972, 21), radiusM |-> FromDec(6371, 3), kind |-> "normal"],
     [id |-> "moon", massKg |-> FromDec(7347673, 16), radiusM |-> FromDec(17374, 2), kind |-> "normal"],
     [id |-> "mars", massKg |-> FromDec(64171, 19), radiusM |-> FromDec(33895, 2), kind |-> "normal"],
     [id |-> "venus", massKg |-> FromDec(48675, 20), radiusM |-> FromDec(60518, 2), kind |-> "normal"],
     [id |-> "merc", massKg |-> FromDec(33011, 19), radiusM |-> FromDec(24397, 2), kind |-> "normal"],
     [id |-> "jup", massKg |-> FromDec(189813, 22), radiusM |-> FromDec(69911, 3), kind |-> "normal"],
     [id |-> "sun", massKg |-> FromDec(198847, 25), radiusM |-> FromDec(69634, 4), kind |-> "normal"],
     [id |-> "ns", massKg |-> FMul(FromDec(14, -1), M_SUN), radiusM |-> FromInt(12000), kind |-> "normal"],
     [id |-> "r136a1", massKg |-> FMul(FromInt(200), M_SUN), radiusM |-> FMul(FromInt(30), R_SUN), kind |-> "normal"],
     [id |-> "bh10", massKg |-> FMul(FromInt(10), M_SUN), radiusM |-> FromInt(3000), kind |-> "bh"],
     [id |-> "sgrA", massKg |-> FMul(FromDec(43, 5), M_SUN), radiusM |-> FromInt(1000000), kind |-> "bh"] >>

phi(massKg, rr) == FDiv(FMul(FNeg(G), massKg), rr)

weakRate(phiVal, vv) ==
  FSub(FAdd(Num1, FDiv(phiVal, FMul(C, C))),
       FDiv(FMul(vv, vv), FMul(FMul(Num2, C), C)))

circularOrbitSpeed(massKg, rr) == MathSqrt(FDiv(FMul(G, massKg), rr))

\* HorizonRatio with the quotient upside down
HorizonRatioInverted(massKg, rr) == FDiv(FMul(FMul(rr, C), C), FMul(FMul(Num2, G), massKg))

\* x of schwarzschildStaticRate: the Schwarzschild radius over rr
HorizonRatio(massKg, rr) == FDiv(FMul(FMul(Num2, G), massKg), FMul(FMul(rr, C), C))

\* schwarzschildStaticRate without the test for the horizon
schwarzschildStaticRateUnguarded(massKg, rr) ==
  MathSqrt(FSub(Num1, HorizonRatio(massKg, rr)))

schwarzschildStaticRate(massKg, rr) ==
  CHOOSE res \in {
    IF FGe(x, Num1) THEN Num0 ELSE MathSqrt(FSub(Num1, x))
  : x \in {HorizonRatio(massKg, rr)}} : TRUE

(***************************************************************************)
(* App.tsx: the values the component derives from its inputs on a render   *)
(***************************************************************************)
Range(seq) == {seq[i] : i \in DOMAIN seq}

BodyIds == {b.id : b \in Range(BODIES)}

\* BODIES.find((b) => b.id === id)
BodyOf(id) == CHOOSE b \in Range(BODIES) : b.id = id

IsBH(b) == b.kind = "bh"

\* the lower limit Math.max puts on the multiplier of a black hole
MinRsMul == FromDec(10001, -4)

Num1000 == FromInt(1000)

\* fEarth with the clock of Earth taken for the far-away one
fEarthFarAway == Num1

fEarth ==
  CHOOSE res \in {
    weakRate(phi(earth.massKg, earth.radiusM), Num0)
  : earth \in {BodyOf("earth")}} : TRUE

\* schwarzschildRadius(body.massKg) of each body of the catalog, computed once
RsTable == [b \in Range(BODIES) |-> schwarzschildRadius(b.massKg)] @@ <<>>

\* rOf with the multiplier held at the horizon itself
rOfClampedAtHorizon(b, md, alt, mul) ==
  IF IsBH(b) THEN FMul(RsTable[b], MathMax(mul, Num1))
  ELSE IF md = "surface" THEN b.radiusM
  ELSE FAdd(b.radiusM, FMul(alt, Num1000))

\* rOf with the altitude taken in metres
rOfAltitudeInMetres(b, md, alt, mul) ==
  IF IsBH(b) THEN FMul(RsTable[b], MathMax(mul, MinRsMul))
  ELSE IF md = "surface" THEN b.radiusM
  ELSE FAdd(b.radiusM, alt)

rOf(b, md, alt, mul) ==
  IF IsBH(b) THEN FMul(RsTable[b], MathMax(mul, MinRsMul))
  ELSE IF md = "surface" THEN b.radiusM
  ELSE FAdd(b.radiusM, FMul(alt, Num1000))

vOf(b, md, rr) ==
  IF IsBH(b) THEN Num0
  ELSE IF md = "circularOrbit" THEN circularOrbitSpeed(b.massKg, rr)
  ELSE Num0

\* fBodyOf without the test of the speed
fBodyOfIgnoringSpeed(b, rr, vv, exact) ==
  IF IsBH(b) THEN schwarzschildStaticRate(b.massKg, rr)
  ELSE IF exact THEN schwarzschildStaticRate(b.massKg, rr)
  ELSE weakRate(phi(b.massKg, rr), vv)

fBodyOf(b, rr, vv, exact) ==
  IF IsBH(b) THEN schwarzschildStaticRate(b.massKg, rr)
  ELSE IF exact /\ FEq(vv, Num0) THEN schwarzschildStaticRate(b.massKg, rr)
  ELSE weakRate(phi(b.massKg, rr), vv)

ROf(fB) == FDiv(fB, fEarth)

perDayOf(ratio) == FMul(FSub(ratio, Num1), FromInt(86400))

body1s_to_earthOf(ratio) == IF FEq(ratio, Num0) THEN Inf(0) ELSE FDiv(Num1, ratio)

earth1h_to_bodyOf(ratio) == FMul(ratio, FromInt(3600))

body1h_to_earthOf(ratio) == IF FEq(ratio, Num0) THEN Inf(0) ELSE FDiv(FromInt(3600), ratio)

hueShiftFromRatio(Ratio) ==
  CHOOSE res \in {
    FMul(IF FGe(d, Num0) THEN Num1 ELSE FNeg(Num1),
         MathMin(Num1, FMul(MathSqrt(MathAbs(d)), FromInt(20000))))
  : d \in {FSub(Ratio, Num1)}} : TRUE

\* one render: everything the component computes from body, mode, r and the
\* exact-formula option
Pipeline(b, md, rr, exact) ==
  CHOOSE res \in {
    CHOOSE res \in {
      CHOOSE res \in {
        [isBH |-> IsBH(b),
         r |-> rr,
         v |-> vv,
         fBody |-> fB,
         R |-> ratio,
         perDay |-> perDayOf(ratio),
         earth1s_to_body |-> ratio,
         body1s_to_earth |-> body1s_to_earthOf(ratio),
         earth1h_to_body |-> earth1h_to_bodyOf(ratio),
         body1h_to_earth |-> body1h_to_earthOf(ratio),
         hueShift |-> hueShiftFromRatio(ratio)]
      : ratio \in {ROf(fB)}} : TRUE
    : fB \in {fBodyOf(b, rr, vv, exact)}} : TRUE
  : vv \in {vOf(b, md, rr)}} : TRUE

(***************************************************************************)
(* The inputs the model draws from                                         *)
(***************************************************************************)
NumAlt == 4

NumMul == 2

NumSupplied == 3

\* altitudes typed into the number input, in km
AltChoices == <<0, 20200, -8, -7000, 400, -6371>>

\* positions of the multiplier slider: 1.01 to 50 in steps of 0.01
SliderChoices == <<FromDec(101, -2), FromInt(50), FromDec(15, -1), FromDec(333, -2)>>

\* multipliers handed to the pipeline without the slider in between
SuppliedChoices == <<FromDec(5, -1), FromInt(1), FromDec(100005, -5), FromDec(10001, -4), FromDec(10002, -4)>>

Prefix(seq, n) == {seq[i] : i \in 1..(IF n < Len(seq) THEN n ELSE Len(seq))}

InitialRsMul == FromDec(25, -1)

EffectRsMul == FromInt(2)

GPSAltKm == FromInt(20200)

AltVals == {FromInt(a) : a \in Prefix(AltChoices, NumAlt)}

SliderVals == Prefix(SliderChoices, NumMul)

\* every multiplier the slider can have produced or the component sets itself
GridVals == SliderVals \cup {InitialRsMul, EffectRsMul}

SuppliedVals == Prefix(SuppliedChoices, NumSupplied) \cup GridVals

PipelineKeys ==
  {<<b.id, md, rOf(b, md, alt, mul), exact>> :
     b \in Range(BODIES), md \in Modes,
     alt \in AltVals \cup {Num0, GPSAltKm}, mul \in SuppliedVals, exact \in BOOLEAN}

\* Pipeline on every input of the model, computed once
PipelineTable == [k \in PipelineKeys |-> Pipeline(BodyOf(k[1]), k[2], k[3], k[4])] @@ <<>>

(***************************************************************************)
(* App.tsx: the component.  The six useState cells are its inputs; view    *)
(* holds what the last render derived from them (the useMemo values and    *)
(* the constants of the function body), which is what the widgets of that  *)
(* render test and show.  React runs the component in phases: an event     *)
(* handler sets state and schedules a render ("render"; "mount" before the *)
(* first one); the render derives the view; if isBH differs from the one   *)
(* of the render before, or on the first render, the effect runs next      *)
(* ("effect"), before any further event; otherwise the component waits for *)
(* an event ("idle").  lastEvent names the event handled last ("mount"     *)
(* until the first one).                                                   *)
(***************************************************************************)
VARIABLES bodyId, mode, altKm, useExactStatic, simple, rsMul, view, phase, lastEvent

vars == <<bodyId, mode, altKm, useExactStatic, simple, rsMul, view, phase, lastEvent>>

body == BodyOf(bodyId)

isBH == view.isBH

r == view.r

v == view.v

fBody == view.fBody

R == view.R

perDay == view.perDay

earth1s_to_body == view.earth1s_to_body

body1s_to_earth == view.body1s_to_earth

earth1h_to_body == view.earth1h_to_body

body1h_to_earth == view.body1h_to_earth

hueShift == view.hueShift

\* the view is the one of the current inputs
Shown == phase \in {"effect", "idle"}

Init ==
  /\ bodyId = "earth"
  /\ mode = "surface"
  /\ altKm = Num0
  /\ useExactStatic = FALSE
  /\ simple = TRUE
  /\ rsMul = InitialRsMul
  /\ view = <<>>
  /\ phase = "mount"
  /\ lastEvent = "mount"

\* the function body of App: one render
Render ==
  /\ phase \in {"mount", "render"}
  /\ view' = PipelineTable[<<bodyId, mode, rOf(body, mode, altKm, rsMul), useExactStatic>>]
  /\ phase' = IF phase = "mount" THEN "effect"
              ELSE IF view'.isBH # view.isBH THEN "effect"
              ELSE "idle"
  /\ UNCHANGED <<bodyId, mode, altKm, useExactStatic, simple, rsMul, lastEvent>>

\* Effect without the setMode call
EffectKeepingMode ==
  /\ phase = "effect"
  /\ IF isBH
       THEN rsMul' = MathMax(rsMul, EffectRsMul)
       ELSE UNCHANGED rsMul
  /\ phase' = IF rsMul' # rsMul THEN "render" ELSE "idle"
  /\ UNCHANGED <<bodyId, mode, altKm, useExactStatic, simple, view, lastEvent>>

\* useEffect(..., [isBH])
Effect ==
  /\ phase = "effect"
  /\ IF isBH
       THEN /\ mode' = "staticAltitude"
            /\ rsMul' = MathMax(rsMul, EffectRsMul)
       ELSE UNCHANGED <<mode, rsMul>>
  /\ phase' = IF mode' # mode \/ rsMul' # rsMul THEN "render" ELSE "idle"
  /\ UNCHANGED <<bodyId, altKm, useExactStatic, simple, view, lastEvent>>

\* the body <select>
SetBodyId(id) ==
  /\ phase = "idle"
  /\ id # bodyId
  /\ bodyId' = id
  /\ phase' = "render"
  /\ lastEvent' = "setBodyId"
  /\ UNCHANGED <<mode, altKm, useExactStatic, simple, rsMul, view>>

\* the mode <select>, disabled while a black hole is selected
SetMode(md) ==
  /\ phase = "idle"
  /\ ~isBH
  /\ md # mode
  /\ mode' = md
  /\ phase' = "render"
  /\ lastEvent' = "setMode"
  /\ UNCHANGED <<bodyId, altKm, useExactStatic, simple, rsMul, view>>

\* the altitude input: any number can be typed, it has no min
SetAltKm(alt) ==
  /\ phase = "idle"
  /\ ~isBH
  /\ mode # "surface"
  /\ alt # altKm
  /\ altKm' = alt
  /\ phase' = "render"
  /\ lastEvent' = "setAltKm"
  /\ UNCHANGED <<bodyId, mode, useExactStatic, simple, rsMul, view>>

\* the r / Rs slider, rendered only while a black hole is selected
SetRsMul(mul) ==
  /\ phase = "idle"
  /\ isBH
  /\ mul # rsMul
  /\ rsMul' = mul
  /\ phase' = "render"
  /\ lastEvent' = "setRsMul"
  /\ UNCHANGED <<bodyId, mode, altKm, useExactStatic, simple, view>>

\* the exact-formula checkbox, disabled={isBH || v !== 0}
SetUseExactStatic ==
  /\ phase = "idle"
  /\ ~isBH
  /\ FEq(v, Num0)
  /\ useExactStatic' = ~useExactStatic
  /\ phase' = "render"
  /\ lastEvent' = "setUseExactStatic"
  /\ UNCHANGED <<bodyId, mode, altKm, simple, rsMul, view>>

\* the simple-display checkbox
SetSimple ==
  /\ phase = "idle"
  /\ simple' = ~simple
  /\ phase' = "render"
  /\ lastEvent' = "setSimple"
  /\ UNCHANGED <<bodyId, mode, altKm, useExactStatic, rsMul, view>>

\* setGPS without the selection of Earth
setGPSKeepingBody ==
  /\ phase = "idle"
  /\ mode' = "circularOrbit"
  /\ altKm' = GPSAltKm
  /\ useExactStatic' = FALSE
  /\ phase' = "render"
  /\ lastEvent' = "setGPS"
  /\ UNCHANGED <<bodyId, simple, rsMul, view>>

\* the GPS preset button
setGPS ==
  /\ phase = "idle"
  /\ bodyId' = "earth"
  /\ mode' = "circularOrbit"
  /\ altKm' = GPSAltKm
  /\ useExactStatic' = FALSE
  /\ phase' = "render"
  /\ lastEvent' = "setGPS"
  /\ UNCHANGED <<simple, rsMul, view>>

Next ==
  \/ Render
  \/ Effect
  \/ \E id \in BodyIds : SetBodyId(id)
  \/ \E md \in Modes : SetMode(md)
  \/ \E alt \in AltVals : SetAltKm(alt)
  \/ \E mul \in SliderVals : SetRsMul(mul)
  \/ SetUseExactStatic
  \/ SetSimple
  \/ setGPS

Spec == Init /\ [][Next]_vars

(***************************************************************************)
(* The pipeline as a function of its inputs: every input is supplied       *)
(* directly, without the widgets that restrict what the user can enter,    *)
(* and each supply is followed by a render.                                *)
(***************************************************************************)
InitCore ==
  /\ bodyId = "earth"
  /\ mode = "surface"
  /\ altKm = Num0
  /\ useExactStatic = FALSE
  /\ simple = TRUE
  /\ rsMul = InitialRsMul
  /\ view = <<>>
  /\ phase = "mount"
  /\ lastEvent = "supply"

RenderCore ==
  /\ phase \in {"mount", "render"}
  /\ view' = PipelineTable[<<bodyId, mode, rOf(body, mode, altKm, rsMul), useExactStatic>>]
  /\ phase' = "idle"
  /\ UNCHANGED <<bodyId, mode, altKm, useExactStatic, simple, rsMul, lastEvent>>

SupplyBody(id) ==
  /\ phase = "idle"
  /\ bodyId' = id
  /\ phase' = "render"
  /\ UNCHANGED <<mode, altKm, useExactStatic, simple, rsMul, view, lastEvent>>

SupplyMode(md) ==
  /\ phase = "idle"
  /\ mode' = md
  /\ phase' = "render"
  /\ UNCHANGED <<bodyId, altKm, useExactStatic, simple, rsMul, view, lastEvent>>

SupplyAlt(alt) ==
  /\ phase = "idle"
  /\ altKm' = alt
  /\ phase' = "render"
  /\ UNCHANGED <<bodyId, mode, useExactStatic, simple, rsMul, view, lastEvent>>

SupplyExact(exact) ==
  /\ phase = "idle"
  /\ useExactStatic' = exact
  /\ phase' = "render"
  /\ UNCHANGED <<bodyId, mode, altKm, simple, rsMul, view, lastEvent>>

SupplyMul(mul) ==
  /\ phase = "idle"
  /\ rsMul' = mul
  /\ phase' = "render"
  /\ UNCHANGED <<bodyId, mode, altKm, useExactStatic, simple, view, lastEvent>>

NextCore ==
  \/ RenderCore
  \/ \E id \in BodyIds : SupplyBody(id)
  \/ \E md \in Modes : SupplyMode(md)
  \/ \E alt \in AltVals : SupplyAlt(alt)
  \/ \E exact \in BOOLEAN : SupplyExact(exact)
  \/ \E mul \in SuppliedVals : SupplyMul(mul)

SpecCore == InitCore /\ [][NextCore]_vars

(***************************************************************************)
(* The claims.  They speak of the states in which the view is the one of   *)
(* the current inputs (Shown).                                             *)
(***************************************************************************)
\* the two candidate rates and the horizon ratio x at an observer
Candidates(b, md, rr) ==
  [exact |-> schwarzschildStaticRate(b.massKg, rr),
   weak |-> weakRate(phi(b.massKg, rr), vOf(b, md, rr)),
   x |-> HorizonRatio(b.massKg, rr)]

\* Candidates on every input of the model, computed once
CandidateTable ==
  [k \in {<<q[1], q[2], q[3]>> : q \in PipelineKeys} |->
     Candidates(BodyOf(k[1]), k[2], k[3])] @@ <<>>

\* the candidates at the observer shown
Candidate == CandidateTable[<<bodyId, mode, r>>]

\* the Schwarzschild radius of the selected body
Rs == RsTable[body]

\* the condition under which the exact strong-field formula is to be used
ExactSelected == IsBH(body) \/ (useExactStatic /\ FEq(v, Num0))

\* C1: in every reachable input state fBody is schwarzschildStaticRate(mass, r)
\* exactly when the body is a black hole, or it is not and the exact-formula
\* option is set and the resolved speed is zero; in every other state it is
\* weakRate(phi(mass, r), v).  A non-zero speed on a body that is not a black
\* hole selects the weak-field formula whatever the option holds.
C1_FormulaSelection ==
  Shown =>
    /\ ExactSelected => fBody = Candidate.exact
    /\ ~ExactSelected => fBody = Candidate.weak
    /\ (~IsBH(body) /\ ~FEq(v, Num0)) => fBody = Candidate.weak

\* the option is set, the observer moves, and the two formulas differ
C1_Witness ==
  /\ Shown
  /\ ~IsBH(body)
  /\ useExactStatic
  /\ FGt(v, Num0)
  /\ fBody = Candidate.weak
  /\ Candidate.weak # Candidate.exact

\* the view of a black hole does not depend on the mode or the altitude
ModeAndAltitudeIgnored ==
  \A md \in Modes, alt \in AltVals :
    LET other == PipelineTable[<<bodyId, md, rOf(body, md, alt, rsMul), useExactStatic>>]
    IN other.r = r /\ other.v = v /\ other.fBody = fBody

\* C2 as stated: whenever the body is a black hole the speed is 0 and
\* r = Rs * m, where m is the supplied multiplier itself when it is greater
\* than 1 and 1.0001 when it is at most 1, whatever the mode and the altitude.
C2_ClampAtOne ==
  (Shown /\ IsBH(body)) =>
    /\ v = Num0
    /\ r = FMul(Rs, IF FGt(rsMul, Num1) THEN rsMul ELSE MinRsMul)
    /\ ModeAndAltitudeIgnored

\* C2 amended: whenever the body is a black hole the speed is 0 and r = Rs * m,
\* where m is the supplied multiplier itself when it is at least 1.0001 and
\* 1.0001 when it is below, whatever the mode and the altitude.
C2_BlackHoleResolution ==
  (Shown /\ IsBH(body)) =>
    /\ v = Num0
    /\ r = FMul(Rs, IF FGe(rsMul, MinRsMul) THEN rsMul ELSE MinRsMul)
    /\ ModeAndAltitudeIgnored

\* a multiplier between 1 and 1.0001 is raised to 1.0001, in orbit mode
C2_Witness ==
  /\ Shown
  /\ IsBH(body)
  /\ FGt(rsMul, Num1)
  /\ FLt(rsMul, MinRsMul)
  /\ mode = "circularOrbit"
  /\ r = FMul(Rs, MinRsMul)
  /\ v = Num0

\* C3: for a body that is not a black hole, mode surface gives r = body
\* radius and v = 0 whatever altitude is stored; staticAltitude gives
\* r = body radius + altitude and v = 0; circularOrbit gives r = body radius +
\* altitude and v = circularOrbitSpeed(mass, r).  The speed is non-zero only
\* in circularOrbit mode.
C3_NormalBodyResolution ==
  (Shown /\ ~IsBH(body)) =>
    /\ mode = "surface" => (r = body.radiusM /\ v = Num0)
    /\ mode = "staticAltitude" =>
         (r = FAdd(body.radiusM, FMul(altKm, Num1000)) /\ v = Num0)
    /\ mode = "circularOrbit" =>
         /\ r = FAdd(body.radiusM, FMul(altKm, Num1000))
         /\ v = circularOrbitSpeed(body.massKg, r)
    /\ ~FEq(v, Num0) => mode = "circularOrbit"

\* an orbit above the surface, with its speed
C3_Witness ==
  /\ Shown
  /\ ~IsBH(body)
  /\ mode = "circularOrbit"
  /\ FGt(altKm, Num0)
  /\ FGt(r, body.radiusM)
  /\ FGt(v, Num0)

\* C4: in every state reachable by input changes the resolved radius r
\* strictly exceeds the Schwarzschild radius of the selected body, and is
\* therefore greater than 0.
C4_RadiusInvariant == Shown => (FGt(r, Rs) /\ FGt(r, Num0))

\* C5: whenever the selected body is Earth and the mode is surface, R equals 1
\* exactly and perDay equals 0, whatever the stored altitude, the multiplier
\* and the exact-formula option.
C5_SelfComparison ==
  (Shown /\ bodyId = "earth" /\ mode = "surface") => (R = Num1 /\ perDay = Num0)

\* Earth at its surface under the exact formula, an altitude stored
C5_Witness ==
  /\ Shown
  /\ bodyId = "earth"
  /\ mode = "surface"
  /\ useExactStatic
  /\ altKm # Num0
  /\ rsMul # InitialRsMul
  /\ R = Num1

\* C6: after the GPS preset is applied in any reachable state, one with a
\* black hole selected and the exact-formula option set included, the body
\* is Earth, the mode is circularOrbit, the altitude is 20200 km, the
\* weak-field formula is in use, and R > 1, that is perDay > 0.
C6_GpsPreset ==
  (lastEvent = "setGPS" /\ Shown) =>
    /\ bodyId = "earth"
    /\ mode = "circularOrbit"
    /\ altKm = GPSAltKm
    /\ ~ExactSelected
    /\ fBody = Candidate.weak
    /\ FGt(R, Num1)
    /\ FGt(perDay, Num0)

\* the preset was applied while a black hole was shown: isBH changed, so the
\* effect is due
C6_Witness ==
  /\ lastEvent = "setGPS"
  /\ phase = "effect"
  /\ ~isBH
  /\ bodyId = "earth"
  /\ FGt(perDay, Num0)

\* a number or an infinity, as opposed to NaN
IsValue(a) == ~IsNaN(a)

\* C7: in every reachable state the Earth-second-to-body value equals R, the
\* body-second-to-Earth value equals 1/R whenever R # 0 and is +Infinity
\* whenever R = 0, the hour values being these scaled by 3600 with the same
\* zero rule; R = 0 occurs exactly when fBody = 0; no state yields an error
\* instead of a value.
C7_Conversions ==
  Shown =>
    /\ FEq(earth1s_to_body, R)
    /\ FEq(earth1h_to_body, FMul(FromInt(3600), R))
    /\ ~FEq(R, Num0) =>
         /\ FEq(body1s_to_earth, FDiv(Num1, R))
         /\ FEq(body1h_to_earth, FDiv(FromInt(3600), R))
    /\ FEq(R, Num0) => (body1s_to_earth = Inf(0) /\ body1h_to_earth = Inf(0))
    /\ FEq(R, Num0) <=> FEq(fBody, Num0)
    /\ \A a \in {R, earth1s_to_body, body1s_to_earth, earth1h_to_body, body1h_to_earth} :
         IsValue(a)

\* C8: in every reachable state hueShift lies in [-1, 1], is non-negative
\* exactly when R >= 1, and its magnitude is min(1, sqrt(|R - 1|) * 2e4), so
\* that it is 0 exactly when R = 1.
C8_HueShift ==
  Shown =>
    /\ FGe(hueShift, FNeg(Num1))
    /\ FLe(hueShift, Num1)
    /\ FGe(hueShift, Num0) <=> FGe(R, Num1)
    /\ FEq(MathAbs(hueShift),
           MathMin(Num1, FMul(MathSqrt(MathAbs(FSub(R, Num1))), FromInt(20000))))
    /\ FEq(hueShift, Num0) <=> FEq(R, Num1)

\* fBody of the inputs shown with the multiplier replaced by mul
FBodyAt(mul) ==
  PipelineTable[<<bodyId, mode, rOf(body, mode, altKm, mul), useExactStatic>>].fBody

\* C9 as stated: for a fixed black-hole body and any two supplied multipliers
\* m1 < m2, fBody at m2 is strictly greater than fBody at m1.
C9_StrictlyIncreasing ==
  (Shown /\ IsBH(body)) =>
    \A m2 \in SuppliedVals : FLt(rsMul, m2) => FLt(fBody, FBodyAt(m2))

\* C9 amended: for a fixed black-hole body and any two supplied multipliers
\* m1 < m2, fBody at m2 is never less than fBody at m1, and it is strictly
\* greater when m1 and m2 are both positions of the multiplier slider (1.01 to
\* 50 in steps of 0.01).
C9_Monotonicity ==
  (Shown /\ IsBH(body)) =>
    \A m2 \in SuppliedVals :
      FLt(rsMul, m2) =>
        /\ FLe(fBody, FBodyAt(m2))
        /\ (rsMul \in GridVals /\ m2 \in GridVals) => FLt(fBody, FBodyAt(m2))

\* two slider positions with different rates, and two multipliers below the
\* clamp with the same rate
C9_Witness ==
  /\ Shown
  /\ IsBH(body)
  /\ \/ /\ rsMul \in SliderVals
        /\ \E m2 \in SliderVals : FLt(rsMul, m2) /\ FLt(fBody, FBodyAt(m2))
     \/ /\ rsMul \notin GridVals
        /\ \E m2 \in SuppliedVals : FLt(rsMul, m2) /\ FEq(fBody, FBodyAt(m2))

\* what C10 says of the rate returned at horizon ratio x
ExactRateAsStated ==
  /\ FGe(Candidate.x, Num1) => fBody = Num0
  /\ FLt(Candidate.x, Num1) =>
       /\ fBody = MathSqrt(FSub(Num1, Candidate.x))
       /\ FGt(fBody, Num0)
       /\ FLe(fBody, Num1)

\* C10 as stated: for every mass m > 0 and every r, with x = 2Gm/(r c^2),
\* schwarzschildStaticRate(m, r) is exactly 0 when x >= 1, and when x < 1 it
\* is sqrt(1 - x), which lies in (0, 1].
C10_EveryRadius == (Shown /\ ExactSelected) => ExactRateAsStated

\* C10 amended: for every mass m > 0 and every r > 0, with x = 2Gm/(r c^2),
\* schwarzschildStaticRate(m, r) is exactly 0 when x >= 1, and when x < 1 it
\* is sqrt(1 - x), which lies in (0, 1].
C10_ExactStaticRate ==
  (Shown /\ ExactSelected /\ FGt(r, Num0)) => ExactRateAsStated

\* the exact formula at a positive radius inside the horizon
C10_Witness ==
  /\ Shown
  /\ ExactSelected
  /\ FGt(r, Num0)
  /\ FGe(Candidate.x, Num1)
  /\ fBody = Num0

\* a step of the body select
BodySelected == phase = "idle" /\ lastEvent' = "setBodyId" /\ bodyId' # bodyId

\* what C11 says of one step of the component
C11_Step ==
  /\ (phase = "effect" /\ isBH) =>
       (mode' = "staticAltitude" /\ rsMul' = MathMax(rsMul, EffectRsMul))
  /\ (phase = "effect" /\ ~isBH) => UNCHANGED <<mode, rsMul>>
  /\ (phase = "idle" /\ IsBH(body)) => mode = "staticAltitude"
  /\ (BodySelected /\ IsBH(body) /\ ~IsBH(BodyOf(bodyId'))) =>
       (mode' = "staticAltitude" /\ mode' = mode)
  /\ phase \in {"mount", "render"} => UNCHANGED mode
  /\ (BodySelected \/ phase # "idle") => UNCHANGED <<altKm, useExactStatic>>

\* C11: when the selection changes from a body that is not a black hole to a
\* black hole, the effect sets the stored mode to staticAltitude and the
\* stored multiplier to max(multiplier, 2.0); in every settled state with a
\* black hole selected the stored mode is staticAltitude; after switching
\* back to a body that is not a black hole the stored mode remains
\* staticAltitude through the render and the effect that follow; the stored
\* altitude and exact-formula option are left unchanged by the body select,
\* the renders and the effect.
C11_BlackHoleEffect == [][C11_Step]_vars

\* settled on a black hole after the effect raised a multiplier below 2.0,
\* the altitude and the option as stored before
C11_Witness ==
  /\ phase = "idle"
  /\ lastEvent = "setBodyId"
  /\ IsBH(body)
  /\ mode = "staticAltitude"
  /\ rsMul = EffectRsMul
  /\ altKm = GPSAltKm
  /\ useExactStatic

=============================================================================
